---------------------------- MODULE Spec2Model ----------------------------
(***************************************************************************)
(* webshare: address selection / QR presentation at start-up, followed by  *)
(* the lifecycle of the HTTP share (timer, signals, graceful shutdown).    *)
(*                                                                         *)
(* The model follows the version with the shutdown logic; the other        *)
(* version (cmd/webshare/main.go) has the same selection, line for line,   *)
(* and then serves until the listener fails.                               *)
(*                                                                         *)
(* Text is a sequence of one-character strings, an IP address a sequence   *)
(* of 4 or 16 bytes, as net.IP is.                                         *)
(*                                                                         *)
(* Specifications: Spec and FairSpec are the whole program; SpecSel,       *)
(* SpecSkip and SpecV4 the selection pass over larger sets of addresses    *)
(* and flag values; SpecParse is parsePrefixes and SpecClass isPrivateIP   *)
(* over bounded sets of arguments.                                         *)
(***************************************************************************)
EXTENDS Integers, Sequences, FiniteSets, TLC

(***************************************************************************)
(* Bounds of the model.                                                    *)
(***************************************************************************)
\* longest list of interface addresses net.InterfaceAddrs returns (SpecSel)
MaxAddrs == 3
\* most tokens in the -q flag value (SpecSel)
MaxPrefixes == 2
\* largest -t value, in time units
MaxTimeout == 2
\* most requests in flight at once
MaxConns == 2
\* how long the share may idle in <-ctx.Done() before time stops advancing
MaxServe == 3
\* longest -q flag value, in characters (SpecParse)
MaxFlagLen == 4

(***************************************************************************)
(* Program constants.                                                      *)
(***************************************************************************)
\* context.WithTimeout(context.Background(), 5*time.Second)
ShutdownGrace == 5
\* flag.Int("p", 3000, ...)
DefaultPort == 3000

(***************************************************************************)
(* Small helpers over integers and text.                                   *)
(***************************************************************************)
Digit(d) ==
    CASE d = 0 -> "0" [] d = 1 -> "1" [] d = 2 -> "2" [] d = 3 -> "3"
      [] d = 4 -> "4" [] d = 5 -> "5" [] d = 6 -> "6" [] d = 7 -> "7"
      [] d = 8 -> "8" [] d = 9 -> "9"

\* %d of fmt.Sprintf and the decimal bytes of IP.String(), for n >= 0
RECURSIVE Itoa(_)
Itoa(n) == IF n < 10 THEN <<Digit(n)>> ELSE Itoa(n \div 10) \o <<Digit(n % 10)>>

\* a & b on bytes
RECURSIVE BitAnd(_, _)
BitAnd(a, b) ==
    IF a = 0 \/ b = 0 THEN 0
    ELSE 2 * BitAnd(a \div 2, b \div 2) + (IF a % 2 = 1 /\ b % 2 = 1 THEN 1 ELSE 0)

\* strings.HasPrefix(s, prefix)
HasPrefix(s, prefix) ==
    /\ Len(s) >= Len(prefix)
    /\ SubSeq(s, 1, Len(prefix)) = prefix

(***************************************************************************)
(* parsePrefixes: strings.Fields(strings.ReplaceAll(input, ",", " "))      *)
(***************************************************************************)
\* strings.ReplaceAll(input, ",", " ")
ReplaceCommas(input) ==
    [k \in 1..Len(input) |-> IF input[k] = "," THEN " " ELSE input[k]]

\* The white-space characters a TLA+ string cannot hold, each by its name:
\* U+000B, then the spaces outside ASCII (U+0085, U+00A0, U+1680,
\* U+2000..U+200A, U+2028, U+2029, U+202F, U+205F, U+3000)
NamedSpaces ==
    {"<VT>", "<NEL>", "<NBSP>", "<U+1680>", "<U+2000>", "<U+2001>", "<U+2002>",
     "<U+2003>", "<U+2004>", "<U+2005>", "<U+2006>", "<U+2007>", "<U+2008>",
     "<U+2009>", "<U+200A>", "<U+2028>", "<U+2029>", "<U+202F>", "<U+205F>",
     "<U+3000>"}

\* unicode.IsSpace: '\t', '\n', '\v', '\f', '\r', ' ', U+0085, U+00A0 and the
\* characters of the Unicode property White_Space
IsSpace(c) == c \in {" ", "\t", "\n", "\r", "\f"} \cup NamedSpaces

\* strings.Fields: the maximal runs of non-space characters, in order.
\* cur is the field being collected, out the fields found so far.
RECURSIVE FieldsFrom(_, _, _, _)
FieldsFrom(s, k, cur, out) ==
    IF k > Len(s)
    THEN IF cur = <<>> THEN out ELSE Append(out, cur)
    ELSE IF IsSpace(s[k])
         THEN FieldsFrom(s, k + 1, <<>>, IF cur = <<>> THEN out ELSE Append(out, cur))
         ELSE FieldsFrom(s, k + 1, Append(cur, s[k]), out)

Fields(s) == FieldsFrom(s, 1, <<>>, <<>>)

\* splitting on white space alone, the commas left in
parsePrefixesNoCommas(input) == Fields(input)

parsePrefixes(input) == Fields(ReplaceCommas(input))

(***************************************************************************)
(* net.IP and the private-range classifier.                                *)
(***************************************************************************)
\* the nil net.IP
NilIP == <<>>

\* IP.To4(): the 4-byte form of an IPv4 or IPv4-mapped address, else nil
To4(ip) ==
    IF Len(ip) = 4 THEN ip
    ELSE IF /\ Len(ip) = 16
            /\ \A k \in 1..10 : ip[k] = 0
            /\ ip[11] = 255
            /\ ip[12] = 255
         THEN SubSeq(ip, 13, 16)
         ELSE NilIP

\* IP.String() of an address with To4() != nil: dotted decimal
IPString(ip) ==
    LET p4 == To4(ip)
    IN  Itoa(p4[1]) \o <<".">> \o Itoa(p4[2]) \o <<".">> \o Itoa(p4[3])
          \o <<".">> \o Itoa(p4[4])

IPv6Loopback == <<0, 0, 0, 0, 0, 0, 0, 0, 0, 0, 0, 0, 0, 0, 0, 1>>

\* IP.IsLoopback()
IsLoopback(ip) ==
    IF To4(ip) # NilIP THEN To4(ip)[1] = 127 ELSE ip = IPv6Loopback

\* IP.IsLinkLocalUnicast()
IsLinkLocalUnicast(ip) ==
    IF To4(ip) # NilIP
    THEN To4(ip)[1] = 169 /\ To4(ip)[2] = 254
    ELSE Len(ip) = 16 /\ ip[1] = 254 /\ BitAnd(ip[2], 192) = 128

\* IP.IsLinkLocalMulticast()
IsLinkLocalMulticast(ip) ==
    IF To4(ip) # NilIP
    THEN To4(ip)[1] = 224 /\ To4(ip)[2] = 0 /\ To4(ip)[3] = 0
    ELSE Len(ip) = 16 /\ ip[1] = 255 /\ BitAnd(ip[2], 15) = 2

\* a mask cut down to whole bytes: /12 becomes /8
MaskByteWhole(ones, k) == IF ones >= 8 * k THEN 255 ELSE 0

\* byte k (1-based) of net.CIDRMask(ones, 8 * n)
MaskByte(ones, k) ==
    IF ones >= 8 * k THEN 255
    ELSE IF ones <= 8 * (k - 1) THEN 0
    ELSE 256 - 2 ^ (8 * k - ones)

Zeros(n) == [k \in 1..n |-> 0]

\* a table without its last entry, fc00::/7
privateIPBlocksShort ==
    << [ip |-> <<127, 0, 0, 0>>, ones |-> 8],
       [ip |-> <<10, 0, 0, 0>>, ones |-> 8],
       [ip |-> <<172, 16, 0, 0>>, ones |-> 12],
       [ip |-> <<192, 168, 0, 0>>, ones |-> 16],
       [ip |-> <<169, 254, 0, 0>>, ones |-> 16],
       [ip |-> Zeros(15) \o <<1>>, ones |-> 128],
       [ip |-> <<254, 128>> \o Zeros(14), ones |-> 10] >>

\* setupPrivateIPBlocks: the table net.ParseCIDR builds, in order
privateIPBlocks ==
    << [ip |-> <<127, 0, 0, 0>>, ones |-> 8],
       [ip |-> <<10, 0, 0, 0>>, ones |-> 8],
       [ip |-> <<172, 16, 0, 0>>, ones |-> 12],
       [ip |-> <<192, 168, 0, 0>>, ones |-> 16],
       [ip |-> <<169, 254, 0, 0>>, ones |-> 16],
       [ip |-> Zeros(15) \o <<1>>, ones |-> 128],
       [ip |-> <<254, 128>> \o Zeros(14), ones |-> 10],
       [ip |-> <<252, 0>> \o Zeros(14), ones |-> 7] >>

\* IPNet.Contains(ip)
Contains(block, ip) ==
    LET x == IF To4(ip) # NilIP THEN To4(ip) ELSE ip
    IN  /\ Len(x) = Len(block.ip)
        /\ \A k \in 1..Len(x) :
              BitAnd(block.ip[k], MaskByte(block.ones, k))
                = BitAnd(x[k], MaskByte(block.ones, k))

isPrivateIP(ip) ==
    \/ IsLoopback(ip)
    \/ IsLinkLocalUnicast(ip)
    \/ IsLinkLocalMulticast(ip)
    \/ \E b \in 1..Len(privateIPBlocks) : Contains(privateIPBlocks[b], ip)


(***************************************************************************)
(* Inputs: what net.InterfaceAddrs() may return and the flag values.       *)
(***************************************************************************)
IPNetOf(ip) == [kind |-> "IPNet", ip |-> ip]

Private10 == IPNetOf(<<10, 0, 0, 5>>)
Public8 == IPNetOf(<<8, 8, 8, 8>>)
\* public (carrier-grade NAT range is not in the table); its text starts with "10"
Public100 == IPNetOf(<<100, 64, 0, 1>>)
\* fe80::1, an IPv6 entry
V6LinkLocal == IPNetOf(<<254, 128>> \o Zeros(13) \o <<1>>)
\* a net.Addr that is not a *net.IPNet
NonIPNet == [kind |-> "IPAddr", ip |-> <<8, 8, 4, 4>>]

Candidates == {Private10, Public8, Public100, V6LinkLocal, NonIPNet}

SeqsUpTo(S, n) == UNION {[1..m -> S] : m \in 0..n}

\* "1" and "10" both match 10.0.0.5 and 100.64.0.1; "192" matches no candidate
Tokens == {<<"1", "0">>, <<"1">>, <<"1", "9", "2">>}

RECURSIVE Join(_, _)
Join(toks, sep) ==
    IF Len(toks) = 0 THEN <<>>
    ELSE IF Len(toks) = 1 THEN toks[1]
    ELSE toks[1] \o sep \o Join(Tail(toks), sep)

Separators == {<<",">>, <<" ">>}

\* values of the -q flag
RawFlags ==
    {Join(t, sep) : t \in SeqsUpTo(Tokens, MaxPrefixes), sep \in Separators}

\* flag.String("q", "192", ...)
DefaultQrPrefix == <<"1", "9", "2">>

(***************************************************************************)
(* State.                                                                  *)
(***************************************************************************)
VARIABLES
    addrs,          \* what net.InterfaceAddrs() returns
    qrPrefix,       \* *qrPrefix
    port,           \* *port
    timeout,        \* *timeout, in time units
    pc,             \* where main is
    exitCode,       \* -1 while the process runs, else its exit status
    prefixes,       \* prefixes
    i,              \* index of the range loop over addrs (1-based)
    qrGenerated,    \* qrGenerated
    fallbackIP,     \* fallbackIP (NilIP when nil)
    fallbackLink,   \* fallbackLink
    qr,             \* calls of qrterminal.GenerateWithConfig, in order
    logLines,       \* the per-address log lines, in order
    ctxDone,        \* ctx has been cancelled (ctx.Done() is closed)
    cancelVar,      \* which context's CancelFunc the variable cancel holds
    timer,          \* the time.AfterFunc timer: "none", "armed", "fired"
    timerAt,        \* when the armed timer fires
    sigChan,        \* the signals buffered in sigChan (capacity 1)
    sigPc,          \* the signal goroutine: "none", "recv", "log", "done"
    srv,            \* the server goroutine: "none", "starting", "binding",
                    \* "serving", "closing", "returned", "closed"
    srvErr,         \* the error srv.ListenAndServe() returned: "none" before
    openConns,      \* connections with a request in flight
    idleConns,      \* accepted keep-alive connections with no request in flight
    shutdownCtx,    \* shutdownCtx: "none", "active", "canceled", "expired"
    shutdownAt,     \* the deadline of shutdownCtx
    shutdownErr,    \* what srv.Shutdown returned: "none", "nil", or the ctx error
    now,            \* time since the share was set up, in time units
    access,         \* accesses to main's variables made once concurrency has begun
    sigSeenIn,      \* the state of the share when the first signal was delivered
    failedIn,       \* the state of the share when the listener failed
    testIP,         \* the address handed to isPrivateIP on its own (SpecClass)
    verdict         \* what isPrivateIP made of testIP: "none" before the call

inputVars == <<addrs, qrPrefix, port, timeout>>

selVars == <<prefixes, i, qrGenerated, fallbackIP, fallbackLink, qr, logLines>>

lifeVars == <<ctxDone, cancelVar, timer, timerAt, sigChan, sigPc, srv, srvErr, openConns,
              idleConns,
              shutdownCtx, shutdownAt, shutdownErr, now, access, sigSeenIn,
              failedIn>>

classVars == <<testIP, verdict>>

vars == <<inputVars, pc, exitCode, selVars, lifeVars, classVars>>

(***************************************************************************)
(* main, lines 88-143: enumeration and address selection.                  *)
(***************************************************************************)
HttpScheme == <<"h", "t", "t", "p", ":", "/", "/">>

\* fmt.Sprintf("http://%s:%d", ipnet.IP.String(), *port)
Link(ip, p) == HttpScheme \o IPString(ip) \o <<":">> \o Itoa(p)

\* mark := "public"; if isPrivateIP(ipnet.IP) { mark = "private" }
Mark(ip) == IF isPrivateIP(ip) THEN "private" ELSE "public"

\* The loop over prefixes: the links handed to qrterminal for one address.
RECURSIVE PrefixLoopFrom(_, _, _, _)
PrefixLoopFrom(text, link, pfx, k) ==
    IF k > Len(pfx) THEN <<>>
    ELSE IF HasPrefix(text, pfx[k])
         THEN <<link>>      \* break
         ELSE PrefixLoopFrom(text, link, pfx, k + 1)

\* the loop without its break: one call per matching prefix
RECURSIVE PrefixLoopNoBreakFrom(_, _, _, _)
PrefixLoopNoBreakFrom(text, link, pfx, k) ==
    IF k > Len(pfx) THEN <<>>
    ELSE (IF HasPrefix(text, pfx[k]) THEN <<link>> ELSE <<>>)
           \o PrefixLoopNoBreakFrom(text, link, pfx, k + 1)

PrefixLoopNoBreak(text, link, pfx) == PrefixLoopNoBreakFrom(text, link, pfx, 1)

\* the break outside the if: only the first prefix is ever tested
PrefixLoopFirstOnly(text, link, pfx) ==
    IF pfx # <<>> /\ HasPrefix(text, pfx[1]) THEN <<link>> ELSE <<>>

\* a loop in which only the last prefix counts
PrefixLoopLastOnly(text, link, pfx) ==
    IF pfx # <<>> /\ HasPrefix(text, pfx[Len(pfx)]) THEN <<link>> ELSE <<>>

PrefixLoop(text, link, pfx) == PrefixLoopFrom(text, link, pfx, 1)

\* without the fallbackIP == nil test: the last public address wins
StoreFallbackLast(fbIP, fbLink, ip, link) ==
    IF ~isPrivateIP(ip)
    THEN [ip |-> ip, link |-> link]
    ELSE [ip |-> fbIP, link |-> fbLink]

\* if !isPrivateIP(ipnet.IP) && fallbackIP == nil { ... }
StoreFallback(fbIP, fbLink, ip, link) ==
    IF ~isPrivateIP(ip) /\ fbIP = NilIP
    THEN [ip |-> ip, link |-> link]
    ELSE [ip |-> fbIP, link |-> fbLink]

\* without the !qrGenerated test
FallbackCallsAlways(generated, fbIP, fbLink) ==
    IF fbIP # NilIP THEN <<fbLink>> ELSE <<>>

\* without the fallbackIP != nil test
FallbackCallsNoNilTest(generated, fbIP, fbLink) ==
    IF ~generated THEN <<fbLink>> ELSE <<>>

\* if !qrGenerated && fallbackIP != nil { GenerateWithConfig(fallbackLink) }
FallbackCalls(generated, fbIP, fbLink) ==
    IF ~generated /\ fbIP # NilIP THEN <<fbLink>> ELSE <<>>

\* if ipnet, ok := addr.(*net.IPNet); ok { if ipnet.IP.To4() != nil {
\* the To4 test without the type assertion before it
IsIPv4Any(addr) == To4(addr.ip) # NilIP

\* if ipnet, ok := addr.(*net.IPNet); ok { if ipnet.IP.To4() != nil { ...
IsIPv4Net(addr) == addr.kind = "IPNet" /\ To4(addr.ip) # NilIP

Calls(links, via) == [k \in 1..Len(links) |-> [link |-> links[k], via |-> via]]

\* a main that starts the server goroutine before it looks at the addresses
EnumerateServerFirst ==
    /\ pc = "start"
    /\ pc' = "loop"
    /\ prefixes' = parsePrefixes(qrPrefix)
    /\ i' = 1
    /\ srv' = "starting"
    /\ UNCHANGED <<classVars, inputVars, exitCode, qrGenerated, fallbackIP, fallbackLink,
                   qr, logLines, ctxDone, cancelVar, timer, timerAt, sigChan,
                   sigPc, openConns, idleConns, shutdownCtx, shutdownAt, shutdownErr, now,
                   access, sigSeenIn, failedIn, srvErr>>

\* net.InterfaceAddrs() succeeded; prefixes := parsePrefixes(*qrPrefix)
Enumerate ==
    /\ pc = "start"
    /\ pc' = "loop"
    /\ prefixes' = parsePrefixes(qrPrefix)
    /\ i' = 1
    /\ UNCHANGED <<classVars, inputVars, exitCode, qrGenerated, fallbackIP, fallbackLink,
                   qr, logLines, lifeVars>>

\* an enumeration failure that is passed over, the share being set up with no
\* address looked at
EnumerateFailPassedOver ==
    /\ pc = "start"
    /\ pc' = "setup"
    /\ UNCHANGED <<classVars, inputVars, exitCode, selVars, lifeVars>>

\* Lines 112-143 as a function of the address list, the prefix list and the
\* port: the calls of GenerateWithConfig the pass makes, in order.  st is
\* what the loop carries from one address to the next.
RECURSIVE SinkCallsFrom(_, _, _, _, _)
SinkCallsFrom(addrList, pfx, p, k, st) ==
    IF k > Len(addrList)
    THEN st.qr \o Calls(FallbackCalls(st.generated, st.fbIP, st.fbLink), "fallback")
    ELSE IF IsIPv4Net(addrList[k])
         THEN LET ip == addrList[k].ip
                  link == Link(ip, p)
                  calls == PrefixLoop(IPString(ip), link, pfx)
                  fb == StoreFallback(st.fbIP, st.fbLink, ip, link)
              IN  SinkCallsFrom(addrList, pfx, p, k + 1,
                                [qr |-> st.qr \o Calls(calls, "prefix"),
                                 generated |-> (st.generated \/ calls # <<>>),
                                 fbIP |-> fb.ip,
                                 fbLink |-> fb.link])
         ELSE SinkCallsFrom(addrList, pfx, p, k + 1, st)

SinkCalls(addrList, pfx, p) ==
    SinkCallsFrom(addrList, pfx, p, 1,
                  [qr |-> <<>>, generated |-> FALSE, fbIP |-> NilIP, fbLink |-> <<>>])

\* net.InterfaceAddrs() failed: log.Fatal(err)
EnumerateFail ==
    /\ pc = "start"
    /\ pc' = "fatal"
    /\ exitCode' = 1
    /\ UNCHANGED <<classVars, inputVars, selVars, lifeVars>>

\* one iteration of for _, addr := range addrs
LoopIter ==
    /\ pc = "loop"
    /\ i <= Len(addrs)
    /\ i' = i + 1
    /\ IF IsIPv4Net(addrs[i])
       THEN LET ip == addrs[i].ip
                link == Link(ip, port)
                calls == PrefixLoop(IPString(ip), link, prefixes)
                fb == StoreFallback(fallbackIP, fallbackLink, ip, link)
            IN  /\ logLines' = Append(logLines, [link |-> link, mark |-> Mark(ip)])
                /\ qr' = qr \o Calls(calls, "prefix")
                /\ qrGenerated' = (qrGenerated \/ calls # <<>>)
                /\ fallbackIP' = fb.ip
                /\ fallbackLink' = fb.link
       ELSE UNCHANGED <<logLines, qr, qrGenerated, fallbackIP, fallbackLink>>
    /\ UNCHANGED <<classVars, inputVars, pc, exitCode, prefixes, lifeVars>>

\* the range loop is over: the fallback decision, lines 140-143
Fallback ==
    /\ pc = "loop"
    /\ i > Len(addrs)
    /\ qr' = qr \o Calls(FallbackCalls(qrGenerated, fallbackIP, fallbackLink), "fallback")
    /\ pc' = "setup"
    /\ UNCHANGED <<classVars, inputVars, exitCode, prefixes, i, qrGenerated, fallbackIP,
                   fallbackLink, logLines, lifeVars>>

SelInit(addrLists, flags, ports, timeouts) ==
    /\ addrs \in addrLists
    /\ qrPrefix \in flags
    /\ port \in ports
    /\ timeout \in timeouts
    /\ pc = "start"
    /\ prefixes = <<>>
    /\ i = 0
    /\ qrGenerated = FALSE
    /\ fallbackIP = NilIP
    /\ fallbackLink = <<>>
    /\ qr = <<>>
    /\ logLines = <<>>
    /\ exitCode = -1
    /\ ctxDone = FALSE
    /\ cancelVar = "none"
    /\ timer = "none"
    /\ timerAt = 0
    /\ sigChan = <<>>
    /\ sigPc = "none"
    /\ srv = "none"
    /\ srvErr = "none"
    /\ openConns = 0
    /\ idleConns = 0
    /\ shutdownCtx = "none"
    /\ shutdownAt = 0
    /\ shutdownErr = "none"
    /\ now = 0
    /\ access = {}
    /\ sigSeenIn = "none"
    /\ failedIn = "none"

\* isPrivateIP is called by the address loop only
ClassIdle == testIP = NilIP /\ verdict = "none"

InitSel ==
    /\ SelInit(SeqsUpTo(Candidates, MaxAddrs), RawFlags, {DefaultPort}, {0})
    /\ ClassIdle

NextSel ==
    \/ Enumerate
    \/ EnumerateFail
    \/ LoopIter
    \/ Fallback

\* the selection pass alone, over all inputs within the bounds
SpecSel == InitSel /\ [][NextSel]_vars

\* 1::1, an IPv6 entry that is public and whose text starts with "1"
V6Public == IPNetOf(<<0, 1>> \o Zeros(13) \o <<1>>)

\* a net.Addr that is not a *net.IPNet, public, its text starting with "10"
NonIPNet100 == [kind |-> "IPAddr", ip |-> <<100, 64, 0, 2>>]

SkipCandidates == {Private10, Public8, V6Public, NonIPNet100}

\* address lists in which entries the loop passes over stand among, before
\* and after IPv4 candidates
InitSkip ==
    /\ SelInit(SeqsUpTo(SkipCandidates, MaxAddrs), RawFlags, {DefaultPort}, {0})
    /\ ClassIdle

SpecSkip == InitSkip /\ [][NextSel]_vars

\* the characters of -q values: two ordinary ones, the comma, white space
\* (space, tab, newline, vertical tab, no-break space)
FlagAlphabet == {"a", "1", ",", " ", "\t", "\n", "<VT>", "<NBSP>"}

\* every -q value up to MaxFlagLen characters, no interface address
InitParse ==
    /\ SelInit({<<>>}, SeqsUpTo(FlagAlphabet, MaxFlagLen), {DefaultPort}, {0})
    /\ ClassIdle

NextParse == Enumerate

\* parsePrefixes applied by main to every flag value within the bound
SpecParse == InitParse /\ [][NextParse]_vars

(***************************************************************************)
(* isPrivateIP on its own, over addresses at and around the edges of the   *)
(* blocks of the table.                                                    *)
(***************************************************************************)
\* first bytes of the IPv4 samples: each block's, its neighbours', the ends
V4First ==
    {0, 8, 9, 10, 11, 100, 126, 127, 128, 168, 169, 170, 171, 172, 173, 191,
     192, 193, 223, 224, 225, 255}

\* second bytes: the edges of 172.16/12, 192.168/16 and 169.254/16
V4Second == {0, 1, 15, 16, 17, 31, 32, 64, 167, 168, 169, 253, 254, 255}

V4Low == {0, 1, 255}

V4Samples ==
    {<<a, b, c, d>> : a \in V4First, b \in V4Second, c \in V4Low, d \in V4Low}

\* first and second bytes of the IPv6 samples: the edges of fc00::/7 and
\* fe80::/10, the multicast scopes
V6First == {0, 32, 251, 252, 253, 254, 255}

V6Second == {0, 2, 127, 128, 191, 192, 255}

\* bytes 3 to 15 all f, the last byte l
V6Samples ==
    {<<a, b>> \o [k \in 1..13 |-> f] \o <<l>> :
        a \in V6First, b \in V6Second, f \in {0, 255}, l \in V4Low}

\* ::ffff:a.b.c.d, the 16-byte form of an IPv4 address
Mapped(ip4) == Zeros(10) \o <<255, 255>> \o ip4

MappedSamples ==
    {Mapped(ip4) : ip4 \in {<<10, 0, 0, 1>>, <<8, 8, 8, 8>>, <<172, 31, 255, 255>>,
                            <<224, 0, 0, 1>>}}

TestIPs == V4Samples \cup V6Samples \cup MappedSamples \cup {Public8.ip}

\* mark := "public"; if isPrivateIP(ip) { mark = "private" }, for testIP
Classify ==
    /\ verdict = "none"
    /\ testIP # NilIP
    /\ verdict' = Mark(testIP)
    /\ UNCHANGED <<testIP, inputVars, pc, exitCode, selVars, lifeVars>>

InitClass ==
    /\ SelInit({<<>>}, {DefaultQrPrefix}, {DefaultPort}, {0})
    /\ testIP \in TestIPs
    /\ verdict = "none"

NextClass == Classify

SpecClass == InitClass /\ [][NextClass]_vars

\* the selection pass over one IPv4 candidate and no prefix pattern (-q "")
InitV4 ==
    /\ SelInit({<<IPNetOf(ip)>> : ip \in V4Samples}, {<<>>}, {DefaultPort}, {0})
    /\ ClassIdle

NextV4 ==
    \/ Enumerate
    \/ LoopIter
    \/ Fallback

SpecV4 == InitV4 /\ [][NextV4]_vars

(***************************************************************************)
(* main, lines 145-191, and the activities it starts: the AfterFunc timer, *)
(* the signal goroutine, the server goroutine.  Time is discrete; a step   *)
(* of the program takes no time, waiting does.                             *)
(***************************************************************************)
Alive == exitCode = -1

Signals == {"SIGINT", "SIGTERM"}

\* srv.Shutdown has set the server's inShutdown flag
InShutdown ==
    pc \in {"shutdownClose", "shutdownWait", "shutdownCheck", "shutdownSelect",
            "shutdownReturned", "mainReturned", "done"}

\* srv.Shutdown has closed the listeners
ListenersClosed ==
    pc \in {"shutdownWait", "shutdownCheck", "shutdownSelect", "shutdownReturned",
            "mainReturned", "done"}

\* The state of the share, read off the program's state.  There is none
\* before the server goroutine is started.  It is Stopping from the moment
\* a trigger has cancelled ctx (the timer's or the signal goroutine's
\* cancel()), whatever main and the listener have done by then, and Stopped
\* once srv.Shutdown has returned (the drain is over, whatever the process
\* does afterwards).  Before the trigger it is Serving while the listener
\* accepts (or has just failed in Accept and log.Fatal is still to run),
\* Starting otherwise.
SessionState ==
    CASE shutdownErr # "none" -> "Stopped"
      [] pc = "fatal" -> "Fatal"
      [] srv = "none" -> "None"
      [] ctxDone -> "Stopping"
      [] srv = "serving" \/ srvErr = "accept" -> "Serving"
      [] OTHER -> "Starting"

\* What a read of the variable cancel by the timer callback or the signal
\* goroutine can yield.  main assigns it again at line 182 with no
\* synchronisation: a read after that assignment is a data race and may see
\* either function.
CancelRead == IF cancelVar = "shutdownCtx" THEN {"ctx", "shutdownCtx"} ELSE {cancelVar}

\* calling the CancelFunc f; cancelling a context that is already done does nothing
CallCancel(f) ==
    /\ ctxDone' = (ctxDone \/ f = "ctx")
    /\ shutdownCtx' = IF f = "shutdownCtx" /\ shutdownCtx = "active"
                      THEN "canceled" ELSE shutdownCtx

\* the read of cancel by activity who, noted with whether main has reassigned it
ReadsCancel(who) ==
    access' = access \cup {[var |-> "cancel", by |-> who, op |-> "read",
                            late |-> (cancelVar = "shutdownCtx")]}

\* no timer whatever the duration is not the code's: see TimerFor
TimerNeverArmed(t) == "none"

\* the timer armed whatever the duration is not the code's either
TimerAlwaysArmed(t) == "armed"

\* if *timeout > 0 { time.AfterFunc(*timeout, ...) }
TimerFor(t) == IF t > 0 THEN "armed" ELSE "none"

\* lines 145-152: the server value; ctx, cancel := context.WithCancel(...)
Setup ==
    /\ pc = "setup"
    /\ pc' = "setupTimer"
    /\ cancelVar' = "ctx"
    /\ UNCHANGED <<classVars, inputVars, exitCode, selVars, ctxDone, timer,
                   timerAt, sigChan, sigPc, srv, srvErr, openConns,
                   idleConns, shutdownCtx, shutdownAt, shutdownErr, now,
                   access, sigSeenIn, failedIn>>

\* lines 154-160: the timer is armed if the duration is above zero
SetupTimer ==
    /\ pc = "setupTimer"
    /\ pc' = "setupSignals"
    /\ timer' = TimerFor(timeout)
    /\ timerAt' = now + timeout
    /\ UNCHANGED <<classVars, inputVars, exitCode, selVars, ctxDone,
                   cancelVar, sigChan, sigPc, srv, srvErr, openConns,
                   idleConns, shutdownCtx, shutdownAt, shutdownErr, now,
                   access, sigSeenIn, failedIn>>

\* lines 162-169: signal.Notify(sigChan, ...) and the signal goroutine; from
\* here on a signal is buffered and can be handled
SetupSignals ==
    /\ pc = "setupSignals"
    /\ pc' = "setupServer"
    /\ sigPc' = "recv"
    /\ UNCHANGED <<classVars, inputVars, exitCode, selVars, ctxDone,
                   cancelVar, timer, timerAt, sigChan, srv, srvErr,
                   openConns, idleConns, shutdownCtx, shutdownAt,
                   shutdownErr, now, access, sigSeenIn, failedIn>>

\* lines 171-176: the server goroutine is started; main goes on to line 179
SetupServer ==
    /\ pc = "setupServer"
    /\ pc' = "waitCtx"
    /\ srv' = "starting"
    /\ UNCHANGED <<classVars, inputVars, exitCode, selVars, ctxDone,
                   cancelVar, timer, timerAt, sigChan, sigPc, srvErr,
                   openConns, idleConns, shutdownCtx, shutdownAt,
                   shutdownErr, now, access, sigSeenIn, failedIn>>

\* time.AfterFunc(*timeout, func() { cancel() })
TimerFire ==
    /\ Alive
    /\ timer = "armed"
    /\ now >= timerAt
    /\ timer' = "fired"
    /\ \E f \in CancelRead : CallCancel(f)
    /\ ReadsCancel("timer")
    /\ UNCHANGED <<classVars, inputVars, pc, exitCode, selVars, cancelVar, timerAt, sigChan,
                   sigPc, srv, openConns, idleConns, shutdownAt, shutdownErr, now, sigSeenIn, failedIn, srvErr>>

\* SIGINT or SIGTERM is delivered: signal.Notify sends without blocking, so a
\* signal that finds sigChan full is dropped
SignalArrive ==
    /\ Alive
    /\ sigPc # "none"
    /\ \E sig \in Signals :
          sigChan' = IF Len(sigChan) < 1 THEN Append(sigChan, sig) ELSE sigChan
    /\ sigSeenIn' = IF sigSeenIn = "none" THEN SessionState ELSE sigSeenIn
    /\ UNCHANGED <<classVars, inputVars, pc, exitCode, selVars, ctxDone, cancelVar, timer,
                   timerAt, sigPc, srv, openConns, idleConns, shutdownCtx, shutdownAt,
                   shutdownErr, now, access, srvErr, failedIn>>

\* line 166: the signal goroutine receives from sigChan
SigReceive ==
    /\ Alive
    /\ sigPc = "recv"
    /\ sigChan # <<>>
    /\ sigChan' = Tail(sigChan)
    /\ sigPc' = "log"
    /\ UNCHANGED <<classVars, inputVars, pc, exitCode, selVars, ctxDone,
                   cancelVar, timer, timerAt, srv, srvErr, openConns,
                   idleConns, shutdownCtx, shutdownAt, shutdownErr, now,
                   access, sigSeenIn, failedIn>>

\* lines 167-168: the signal goroutine has logged the signal and calls cancel()
SigCancel ==
    /\ Alive
    /\ sigPc = "log"
    /\ sigPc' = "done"
    /\ \E f \in CancelRead : CallCancel(f)
    /\ ReadsCancel("signal")
    /\ UNCHANGED <<classVars, inputVars, pc, exitCode, selVars, cancelVar,
                   timer, timerAt, sigChan, srv, srvErr, openConns,
                   idleConns, shutdownAt, shutdownErr, now, sigSeenIn, failedIn>>

\* the errors srv.ListenAndServe() returns when the listener fails: from
\* net.Listen (the bind) or from Accept
ListenErrors == {"bind", "accept"}

\* err != nil && err != http.ErrServerClosed
FatalErr(err) == err # "nil" /\ err # "ErrServerClosed"

\* log.Fatal(err) in the server goroutine: os.Exit(1), nothing else runs
ServerExits ==
    /\ pc' = "fatal"
    /\ exitCode' = 1
    /\ UNCHANGED <<classVars, inputVars, selVars, lifeVars>>

\* a step of the server goroutine inside srv.ListenAndServe()
ServerMoves(s, err) ==
    /\ srv' = s
    /\ srvErr' = err
    /\ failedIn' = IF err \in ListenErrors THEN SessionState ELSE failedIn
    /\ UNCHANGED <<classVars, inputVars, pc, exitCode, selVars, ctxDone, cancelVar,
                   timer, timerAt, sigChan, sigPc, openConns, idleConns, shutdownCtx,
                   shutdownAt, shutdownErr, now, access, sigSeenIn>>

\* the server goroutine enters srv.ListenAndServe(): if srv.shuttingDown()
\* the call returns http.ErrServerClosed, else it goes on to net.Listen
ServerListen ==
    /\ Alive
    /\ srv = "starting"
    /\ IF InShutdown
       THEN ServerMoves("returned", "ErrServerClosed")
       ELSE ServerMoves("binding", "none")

\* net.Listen returns.  On an error ListenAndServe returns it.  Otherwise
\* Serve registers the listener (trackListener), unless the server is
\* shutting down by then: it closes the listener and returns ErrServerClosed
ServerBind ==
    /\ Alive
    /\ srv = "binding"
    /\ \/ ServerMoves("returned", "bind")
       \/ IF InShutdown
          THEN ServerMoves("returned", "ErrServerClosed")
          ELSE ServerMoves("serving", "none")

\* Accept fails on the open listener: Serve returns ErrServerClosed if the
\* server is shutting down, the error otherwise
ServerAcceptError ==
    /\ Alive
    /\ srv = "serving"
    /\ IF InShutdown
       THEN ServerMoves("returned", "ErrServerClosed")
       ELSE ServerMoves("returned", "accept")

\* Accept fails on the listener srv.Shutdown has closed: ErrServerClosed
ServerClosed ==
    /\ Alive
    /\ srv = "closing"
    /\ ServerMoves("returned", "ErrServerClosed")

\* ListenAndServe has returned an error other than http.ErrServerClosed:
\* log.Fatal(err)
ServerFatal ==
    /\ Alive
    /\ srv = "returned"
    /\ FatalErr(srvErr)
    /\ ServerExits

\* ListenAndServe has returned http.ErrServerClosed: the goroutine ends
ServerDone ==
    /\ Alive
    /\ srv = "returned"
    /\ ~FatalErr(srvErr)
    /\ ServerMoves("closed", srvErr)

\* a connection is accepted on the open listener and its first request begins
ConnOpen ==
    /\ Alive
    /\ srv = "serving"
    /\ openConns + idleConns < MaxConns
    /\ openConns' = openConns + 1
    /\ UNCHANGED <<classVars, inputVars, pc, exitCode, selVars, ctxDone,
                   cancelVar, timer, timerAt, sigChan, sigPc, srv, srvErr,
                   idleConns, shutdownCtx, shutdownAt, shutdownErr, now,
                   access, sigSeenIn, failedIn>>

\* a request in flight finishes.  Its connection is closed, or is kept alive
\* and goes idle; a server that is shutting down keeps none alive
ConnClose ==
    /\ Alive
    /\ openConns > 0
    /\ openConns' = openConns - 1
    /\ \/ idleConns' = idleConns
       \/ ~InShutdown /\ idleConns' = idleConns + 1
    /\ UNCHANGED <<classVars, inputVars, pc, exitCode, selVars, ctxDone,
                   cancelVar, timer, timerAt, sigChan, sigPc, srv, srvErr,
                   shutdownCtx, shutdownAt, shutdownErr, now, access,
                   sigSeenIn, failedIn>>

\* the next request arrives on an idle keep-alive connection: the connection's
\* goroutine reads and serves it whatever the state of the listener
RequestOnIdleConn ==
    /\ Alive
    /\ idleConns > 0
    /\ idleConns' = idleConns - 1
    /\ openConns' = openConns + 1
    /\ UNCHANGED <<classVars, inputVars, pc, exitCode, selVars, ctxDone,
                   cancelVar, timer, timerAt, sigChan, sigPc, srv, srvErr,
                   shutdownCtx, shutdownAt, shutdownErr, now, access,
                   sigSeenIn, failedIn>>

\* the client closes an idle keep-alive connection
IdleConnClose ==
    /\ Alive
    /\ idleConns > 0
    /\ idleConns' = idleConns - 1
    /\ UNCHANGED <<classVars, inputVars, pc, exitCode, selVars, ctxDone,
                   cancelVar, timer, timerAt, sigChan, sigPc, srv, srvErr,
                   openConns, shutdownCtx, shutdownAt, shutdownErr, now,
                   access, sigSeenIn, failedIn>>

\* a shutdown that leaves the listener accepting
ListenerLeftOpen(s) == s

\* srv.Shutdown closes the listener of a serving server (closeListenersLocked);
\* Serve, blocked in Accept, has still to return
ListenerAfterShutdown(s) == IF s = "serving" THEN "closing" ELSE s

\* lines 178-183: <-ctx.Done() returns; shutdownCtx, cancel := WithTimeout(...)
\* assigns the variable cancel again
AwaitDone ==
    /\ pc = "waitCtx"
    /\ ctxDone
    /\ pc' = "shutdownCall"
    /\ shutdownCtx' = "active"
    /\ shutdownAt' = now + ShutdownGrace
    /\ cancelVar' = "shutdownCtx"
    /\ access' = access \cup {[var |-> "cancel", by |-> "main", op |-> "write",
                               late |-> TRUE]}
    /\ UNCHANGED <<classVars, inputVars, exitCode, selVars, ctxDone, timer, timerAt,
                   sigChan, sigPc, srv, srvErr, openConns, idleConns, shutdownErr, now,
                   sigSeenIn, failedIn>>

\* a step of main inside srv.Shutdown that moves main only
MainMoves(to) ==
    /\ pc' = to
    /\ UNCHANGED <<classVars, inputVars, exitCode, selVars, lifeVars>>

\* line 186, srv.Shutdown(shutdownCtx) begins: srv.inShutdown.Store(true)
ShutdownBegin ==
    /\ pc = "shutdownCall"
    /\ MainMoves("shutdownClose")

\* srv.Shutdown locks srv.mu and closes the listeners
ShutdownCloseListeners ==
    /\ pc = "shutdownClose"
    /\ pc' = "shutdownWait"
    /\ srv' = ListenerAfterShutdown(srv)
    /\ UNCHANGED <<classVars, inputVars, exitCode, selVars, ctxDone, cancelVar,
                   timer, timerAt, sigChan, sigPc, srvErr, openConns, idleConns, shutdownCtx,
                   shutdownAt, shutdownErr, now, access, sigSeenIn, failedIn>>

\* srv.listenerGroup.Wait(): until Serve has returned for every listener
ShutdownWaitListeners ==
    /\ pc = "shutdownWait"
    /\ srv \notin {"serving", "closing"}
    /\ MainMoves("shutdownCheck")

\* lines 186-191: either branch only logs and main returns, exit status 0
ExitStatus(err) == 0

\* srv.Shutdown returns err; main has still to log the outcome and return.
\* Every closeIdleConns before the return has closed the idle connections
ShutdownReturns(err) ==
    /\ shutdownErr' = err
    /\ pc' = "shutdownReturned"
    /\ UNCHANGED <<classVars, inputVars, exitCode, selVars, ctxDone,
                   cancelVar, timer, timerAt, sigChan, sigPc, srv, srvErr,
                   openConns, shutdownCtx, shutdownAt, now, access,
                   sigSeenIn, failedIn>>

\* Shutdown's first closeIdleConns, before it waits for anything: it closes
\* the idle connections and Shutdown returns nil if no request is in flight
ShutdownCheck ==
    /\ pc = "shutdownCheck"
    /\ idleConns' = 0
    /\ IF openConns = 0
       THEN ShutdownReturns("nil")
       ELSE /\ pc' = "shutdownSelect"
            /\ UNCHANGED <<classVars, inputVars, exitCode, selVars, ctxDone,
                           cancelVar, timer, timerAt, sigChan, sigPc, srv, srvErr,
                           openConns, shutdownCtx, shutdownAt, shutdownErr, now,
                           access, sigSeenIn, failedIn>>

\* Shutdown's poll: closeIdleConns finds no request in flight (a poll that
\* finds one changes nothing: no connection has gone idle since the flag)
ShutdownClean ==
    /\ pc = "shutdownSelect"
    /\ openConns = 0
    /\ idleConns' = 0
    /\ ShutdownReturns("nil")

\* Shutdown's select sees shutdownCtx.Done() and returns shutdownCtx.Err()
ShutdownCtxDone ==
    /\ pc = "shutdownSelect"
    /\ shutdownCtx \in {"canceled", "expired"}
    /\ idleConns' = idleConns
    /\ ShutdownReturns(IF shutdownCtx = "canceled" THEN "context canceled"
                       ELSE "context deadline exceeded")

\* lines 187-191: main logs what srv.Shutdown returned and returns: the
\* deferred cancel calls of lines 183 and 152 run
MainReturns ==
    /\ pc = "shutdownReturned"
    /\ pc' = "mainReturned"
    /\ shutdownCtx' = IF shutdownCtx = "active" THEN "canceled" ELSE shutdownCtx
    /\ UNCHANGED <<classVars, inputVars, exitCode, selVars, ctxDone,
                   cancelVar, timer, timerAt, sigChan, sigPc, srv, srvErr,
                   openConns, idleConns, shutdownAt, shutdownErr, now,
                   access, sigSeenIn, failedIn>>

\* main has returned: the process exits
MainExits ==
    /\ pc = "mainReturned"
    /\ pc' = "done"
    /\ exitCode' = ExitStatus(shutdownErr)
    /\ UNCHANGED <<classVars, inputVars, selVars, lifeVars>>

\* the deadline of shutdownCtx passes
ShutdownDeadline ==
    /\ Alive
    /\ shutdownCtx = "active"
    /\ now >= shutdownAt
    /\ shutdownCtx' = "expired"
    /\ UNCHANGED <<classVars, inputVars, pc, exitCode, selVars, ctxDone, cancelVar, timer,
                   timerAt, sigChan, sigPc, srv, openConns, idleConns, shutdownAt, shutdownErr,
                   now, access, sigSeenIn, failedIn, srvErr>>

\* some step of the program is due now: time does not pass before it is taken
Urgent ==
    \/ pc \notin {"waitCtx", "shutdownWait", "shutdownSelect"}
    \/ pc = "waitCtx" /\ ctxDone
    \/ pc = "shutdownWait" /\ srv \notin {"serving", "closing"}
    \/ srv \in {"starting", "binding", "closing", "returned"}
    \/ timer = "armed" /\ now >= timerAt
    \/ sigPc = "recv" /\ sigChan # <<>>
    \/ sigPc = "log"
    \/ shutdownCtx = "active" /\ now >= shutdownAt
    \/ pc = "shutdownSelect" /\ (openConns = 0 \/ shutdownCtx # "active")

\* one time unit passes; while nothing is pending the model stops the clock
\* after MaxServe units
Tick ==
    /\ Alive
    /\ ~Urgent
    /\ pc \in {"waitCtx", "shutdownWait"} => (timer = "armed" \/ now < MaxServe)
    /\ now' = now + 1
    /\ UNCHANGED <<classVars, inputVars, pc, exitCode, selVars, ctxDone, cancelVar, timer,
                   timerAt, sigChan, sigPc, srv, openConns, idleConns, shutdownCtx, shutdownAt,
                   shutdownErr, access, sigSeenIn, failedIn, srvErr>>

\* the default -q value and an explicit one, with and without addresses; -t may
\* be negative, zero (the default) or positive
Init ==
    /\ SelInit({<<>>, <<Private10, Public8>>}, {DefaultQrPrefix, <<"1", "0">>},
               {DefaultPort}, (0 - 1)..MaxTimeout)
    /\ ClassIdle

Next ==
    \/ Enumerate
    \/ EnumerateFail
    \/ LoopIter
    \/ Fallback
    \/ Setup
    \/ SetupTimer
    \/ SetupSignals
    \/ SetupServer
    \/ TimerFire
    \/ SignalArrive
    \/ SigReceive
    \/ SigCancel
    \/ ServerListen
    \/ ServerBind
    \/ ServerAcceptError
    \/ ServerClosed
    \/ ServerFatal
    \/ ServerDone
    \/ ConnOpen
    \/ ConnClose
    \/ RequestOnIdleConn
    \/ IdleConnClose
    \/ AwaitDone
    \/ ShutdownBegin
    \/ ShutdownCloseListeners
    \/ ShutdownWaitListeners
    \/ ShutdownCheck
    \/ ShutdownClean
    \/ ShutdownCtxDone
    \/ MainReturns
    \/ MainExits
    \/ ShutdownDeadline
    \/ Tick

\* the whole program
Spec == Init /\ [][Next]_vars

\* The Go scheduler runs every runnable goroutine, timers fire and time
\* passes: the steps of the program are weakly fair.  Nothing is assumed of
\* the environment (signals, requests, Accept errors).
Fairness ==
    /\ WF_vars(Enumerate) /\ WF_vars(LoopIter) /\ WF_vars(Fallback)
    /\ WF_vars(Setup) /\ WF_vars(SetupTimer) /\ WF_vars(SetupSignals)
    /\ WF_vars(SetupServer) /\ WF_vars(TimerFire) /\ WF_vars(SigReceive)
    /\ WF_vars(SigCancel)
    /\ WF_vars(ServerListen) /\ WF_vars(ServerBind) /\ WF_vars(ServerClosed)
    /\ WF_vars(ServerFatal) /\ WF_vars(ServerDone)
    /\ WF_vars(AwaitDone) /\ WF_vars(ShutdownBegin)
    /\ WF_vars(ShutdownCloseListeners) /\ WF_vars(ShutdownWaitListeners)
    /\ WF_vars(ShutdownCheck)
    /\ WF_vars(ShutdownClean) /\ WF_vars(ShutdownCtxDone) /\ WF_vars(MainReturns)
    /\ WF_vars(MainExits)
    /\ WF_vars(ShutdownDeadline) /\ WF_vars(Tick)

FairSpec == Spec /\ Fairness

(***************************************************************************)
(* What the selection is expected to do, stated independently of the loop. *)
(***************************************************************************)
\* the textual form of each IPv4 candidate of the model
CandText(a) ==
    CASE a = Private10 -> <<"1", "0", ".", "0", ".", "0", ".", "5">>
      [] a = Public8 -> <<"8", ".", "8", ".", "8", ".", "8">>
      [] a = Public100 -> <<"1", "0", "0", ".", "6", "4", ".", "0", ".", "1">>

\* http://<address>:<port> with the port of the model, 3000
ExpectedURL(a) ==
    <<"h", "t", "t", "p", ":", "/", "/">> \o CandText(a) \o <<":", "3", "0", "0", "0">>

\* the entries of addrs that are candidate addresses (IPv4 on an interface)
IsCand(a) == a \in {Private10, Public8, Public100}

StartsWith(text, p) ==
    /\ Len(p) <= Len(text)
    /\ \A k \in 1..Len(p) : text[k] = p[k]

\* a candidate whose text starts with at least one of the prefix patterns
CandMatches(a) ==
    IsCand(a) /\ \E k \in 1..Len(prefixes) : StartsWith(CandText(a), prefixes[k])

CandPublic(a) == IsCand(a) /\ ~isPrivateIP(a.ip)

\* positions of addrs, among the first n, that hold a matching candidate
MatchingUpTo(n) == {k \in 1..n : CandMatches(addrs[k])}

PublicUpTo(n) == {k \in 1..n : CandPublic(addrs[k])}

Min(S) == CHOOSE x \in S : \A y \in S : x <= y

RECURSIVE ExpectedPrefixCalls(_)
ExpectedPrefixCalls(n) ==
    IF n = 0 THEN <<>>
    ELSE ExpectedPrefixCalls(n - 1)
           \o (IF CandMatches(addrs[n]) THEN <<ExpectedURL(addrs[n])>> ELSE <<>>)

IsPrefixCall(c) == c.via = "prefix"
IsFallbackCall(c) == c.via = "fallback"
PrefixCalls == SelectSeq(qr, IsPrefixCall)
FallbackCallsMade == SelectSeq(qr, IsFallbackCall)
LinksOf(cs) == [k \in 1..Len(cs) |-> cs[k].link]

InSelection == pc \in {"loop", "setup"}
\* how many entries of addrs the loop has been through
Processed == IF pc = "loop" THEN i - 1 ELSE Len(addrs)

(***************************************************************************)
(* C1  The Selector invokes the Presentation Sink at most once in a run.   *)
(* As stated (counterexample): no run has more than one Sink invocation.   *)
(***************************************************************************)
C1_SinkAtMostOnce == Len(qr) <= 1

(* C1 as amended: the Sink is invoked at most once per candidate that      *)
(* matches a prefix pattern, at most once for the fallback, and the        *)
(* fallback only when no candidate matched.                                *)
C1_SinkOncePerMatchingCandidate ==
    InSelection =>
        /\ Len(PrefixCalls) <= Cardinality(MatchingUpTo(Processed))
        /\ Len(FallbackCallsMade) <= 1
        /\ (FallbackCallsMade # <<>> => PrefixCalls = <<>>)

\* two candidates matched, one of them on both patterns, and the pass is over
C1_Witness ==
    /\ pc = "setup"
    /\ Len(prefixes) = 2
    /\ prefixes[1] # prefixes[2]
    /\ Cardinality(MatchingUpTo(Len(addrs))) = 2
    /\ \E k \in 1..Len(addrs) :
          /\ IsCand(addrs[k])
          /\ \A j \in 1..2 : StartsWith(CandText(addrs[k]), prefixes[j])
    /\ Len(qr) = 2

(***************************************************************************)
(* C3  The prefix-triggered Sink invocations are exactly one per candidate *)
(* whose text starts with at least one prefix pattern, in enumeration      *)
(* order, each with that candidate's URL; several matching patterns give   *)
(* one invocation, and a match does not stop the test of later candidates. *)
(***************************************************************************)
C3_PrefixCallsPerMatchingCandidate ==
    InSelection => LinksOf(PrefixCalls) = ExpectedPrefixCalls(Processed)

\* a candidate matching the second pattern only, one matching neither, then
\* another matching the second pattern only
C3_Witness ==
    /\ pc = "setup"
    /\ Len(addrs) = 3
    /\ prefixes = << <<"1", "9", "2">>, <<"1">> >>
    /\ addrs[1] = Private10
    /\ addrs[2] = Public8
    /\ addrs[3] = Public100
    /\ LinksOf(qr) = <<ExpectedURL(Private10), ExpectedURL(Public100)>>

(***************************************************************************)
(* C4  No candidate matched and some candidate is public: the Sink is      *)
(* invoked exactly once, after all candidates were processed, with the URL *)
(* of the first public candidate in enumeration order.                     *)
(***************************************************************************)
C4_FallbackIsFirstPublic ==
    (InSelection /\ MatchingUpTo(Len(addrs)) = {} /\ PublicUpTo(Len(addrs)) # {}) =>
        /\ pc = "loop" => qr = <<>>
        /\ pc = "setup" =>
              qr = << [link |-> ExpectedURL(addrs[Min(PublicUpTo(Len(addrs)))]),
                       via |-> "fallback"] >>

\* two different public candidates, the second after a private one
C4_Witness ==
    /\ pc = "setup"
    /\ addrs = <<Public100, Private10, Public8>>
    /\ prefixes = << <<"1", "9", "2">> >>
    /\ LinksOf(qr) = <<ExpectedURL(Public100)>>

(***************************************************************************)
(* C5  When at least one candidate matches a prefix pattern the public     *)
(* fallback is never presented, wherever the public candidate stands and   *)
(* whether or not the matching candidate is public; with exactly one       *)
(* matching candidate the Sink is invoked exactly once, with its URL.      *)
(***************************************************************************)
C5_MatchSuppressesFallback ==
    (pc = "setup" /\ MatchingUpTo(Len(addrs)) # {}) =>
        /\ FallbackCallsMade = <<>>
        /\ Cardinality(MatchingUpTo(Len(addrs))) = 1 =>
              LinksOf(qr) = <<ExpectedURL(addrs[Min(MatchingUpTo(Len(addrs)))])>>

\* a public candidate before the only matching one, which is private
C5_Witness ==
    /\ pc = "setup"
    /\ addrs = <<Public8, Private10>>
    /\ prefixes = << <<"1", "0">> >>
    /\ fallbackIP = Public8.ip
    /\ LinksOf(qr) = <<ExpectedURL(Private10)>>

(***************************************************************************)
(* C6  No candidate is public and none matches a prefix pattern (or there  *)
(* are no candidates, or no patterns): the Sink is never invoked.          *)
(***************************************************************************)
C6_NothingToPresent ==
    /\ pc = "start" => qr = <<>>
    /\ (pc # "start" /\ MatchingUpTo(Len(addrs)) = {} /\ PublicUpTo(Len(addrs)) = {})
          => qr = <<>>

\* a private candidate, a pattern that does not match it, the pass is over
C6_Witness ==
    /\ pc = "setup"
    /\ addrs = <<Private10>>
    /\ prefixes = << <<"1", "9", "2">> >>
    /\ qr = <<>>
    /\ Len(logLines) = 1

(***************************************************************************)
(* The lifecycle, as the claims speak of it.                               *)
(***************************************************************************)
\* the share has been set up (main went past the selection)
SessionCreated == srv # "none"

\* a termination signal has been delivered to the process
SignalSeen == sigSeenIn # "none"

\* ListenAndServe has returned an error other than 'server closed'
ListenerFailed == srvErr \in ListenErrors

\* what is left of the grace period for draining the open connections
GraceLeft == IF shutdownCtx = "active" THEN shutdownAt - now ELSE 0

\* a step in which the timer fires or a signal is delivered or handled
TriggerStep == timer' # timer \/ sigChan' # sigChan \/ sigPc' # sigPc

Rank(st) ==
    CASE st = "None" -> 0 [] st = "Starting" -> 1 [] st = "Serving" -> 2
      [] st = "Stopping" -> 3 [] st = "Stopped" -> 4 [] st = "Fatal" -> 5

(***************************************************************************)
(* C2  Once the first trigger has moved the session to Stopping, a later   *)
(* occurrence of the other trigger, or a further signal, has no effect:    *)
(* the session state and the remaining grace period stay what they were    *)
(* (the drain is not cut short).                                           *)
(***************************************************************************)
C2_LaterTriggerHasNoEffect ==
    [][(SessionState = "Stopping" /\ TriggerStep) =>
          (SessionState' = SessionState /\ GraceLeft' = GraceLeft)]_vars

(***************************************************************************)
(* C7  With a positive timeout and no termination signal the session       *)
(* eventually reaches Stopped, no later than timeout + 5 units after       *)
(* serving began, however long connections stay open.                      *)
(* As stated (counterexample):                                             *)
(***************************************************************************)
C7_TimeoutReachesStopped ==
    /\ []((SessionCreated /\ timeout > 0 /\ ~SignalSeen) =>
             now <= timeout + ShutdownGrace)
    /\ ((SessionCreated /\ timeout > 0) ~> (SessionState = "Stopped" \/ SignalSeen))

(* C7 as amended: ... unless a listener-level fatal error ends the process *)
(* first.                                                                  *)
C7_TimeoutReachesStoppedUnlessFatal ==
    /\ []((SessionCreated /\ timeout > 0 /\ ~SignalSeen) =>
             now <= timeout + ShutdownGrace)
    /\ ((SessionCreated /\ timeout > 0) ~>
            (SessionState = "Stopped" \/ SignalSeen \/ SessionState = "Fatal"))

\* no signal, the timer fired, a connection never finished: forced stop at
\* the last moment allowed
C7_Witness ==
    /\ SessionState = "Stopped"
    /\ timeout = MaxTimeout
    /\ ~SignalSeen
    /\ timer = "fired"
    /\ openConns > 0
    /\ shutdownErr = "context deadline exceeded"
    /\ now = timeout + ShutdownGrace

(***************************************************************************)
(* C8  A session in Serving that receives a termination signal moves to    *)
(* Stopping and is Stopped within the 5-unit grace period even if          *)
(* connections never finish (forced); if all connections finish earlier it *)
(* stops on the clean path.  Stated of the final result:                   *)
(***************************************************************************)
C8_SignalStopsWithinGrace ==
    (sigSeenIn = "Serving" /\ SessionState = "Stopped") =>
        /\ now <= shutdownAt
        /\ (openConns = 0 /\ now < shutdownAt) => shutdownErr = "nil"

(***************************************************************************)
(* C9  The session state only moves forward through Starting, Serving,     *)
(* Stopping, Stopped: from Stopping it never returns to Serving, in        *)
(* Stopping and Stopped no new connection is accepted and the listener     *)
(* does not begin to accept, and Stopped is entered from Stopping only and *)
(* never left.                                                             *)
(* As stated (counterexample):                                             *)
(***************************************************************************)
C9_StateMovesForward ==
    [][/\ Rank(SessionState') >= Rank(SessionState)
       /\ SessionState = "Stopping" => SessionState' # "Serving"
       /\ SessionState \in {"Stopping", "Stopped"} =>
              /\ openConns' + idleConns' <= openConns + idleConns
              /\ (srv' = "serving" => srv = "serving")
       /\ SessionState = "Stopped" => SessionState' = "Stopped"
       /\ (SessionState # "Stopped" /\ SessionState' = "Stopped") =>
              SessionState = "Stopping"]_vars

(* C9 as amended: new connections stop being accepted once srv.Shutdown    *)
(* has closed the listener, not at the trigger (until then the listener    *)
(* may accept, and may even begin to).  srv.Shutdown returns at most once, *)
(* so Stopped is entered at most once, and a session in Stopping is        *)
(* eventually Stopped unless a listener failure ends the process first.    *)
C9_StateMovesForwardOnceListenerClosed ==
    /\ [][/\ Rank(SessionState') >= Rank(SessionState)
          /\ SessionState = "Stopping" => SessionState' # "Serving"
          /\ ListenersClosed =>
                 /\ openConns' + idleConns' <= openConns + idleConns
                 /\ srv' # "serving"
          /\ SessionState = "Stopped" => SessionState' = "Stopped"
          /\ (SessionState # "Stopped" /\ SessionState' = "Stopped") =>
                 SessionState = "Stopping"
          /\ shutdownErr' # shutdownErr => shutdownErr = "none"]_vars
    /\ (SessionState = "Stopping") ~> (SessionState \in {"Stopped", "Fatal"})

\* a share that served, was stopping with a connection open, and stopped
C9_Witness ==
    /\ SessionState = "Stopped"
    /\ srv = "closed"
    /\ openConns > 0
    /\ shutdownErr = "context deadline exceeded"
    /\ sigSeenIn = "Serving"

(***************************************************************************)
(* C10  The accept loop, the timer, the signal listener and main's         *)
(* shutdown path share no mutable state but the shutdown signal: no        *)
(* variable written by one of them once concurrency has begun is read by   *)
(* another.                                                                *)
(***************************************************************************)
C10_NoSharedMutableVariable ==
    \A w \in access, r \in access :
        (w.op = "write" /\ r.op = "read" /\ w.var = r.var /\ r.late) => r.by = w.by

(***************************************************************************)
(* C11  The timer is armed only for a duration above zero.  With a zero or *)
(* negative duration and no termination signal the session never enters    *)
(* Stopping or Stopped, and once Serving it stays Serving for as long as   *)
(* the listener does not fail.                                             *)
(***************************************************************************)
C11_NoTimerNoStop ==
    /\ [](timeout <= 0 => timer = "none")
    /\ []((timeout <= 0 /\ ~SignalSeen) =>
             (~ctxDone /\ SessionState \notin {"Stopping", "Stopped"}))
    /\ [][(timeout <= 0 /\ SessionState = "Serving" /\ ~SignalSeen') =>
             SessionState' \in {"Serving", "Fatal"}]_vars

\* a share with a negative duration, still serving a request when the model's
\* clock has run out
C11_Witness ==
    /\ timeout < 0
    /\ ~SignalSeen
    /\ SessionState = "Serving"
    /\ timer = "none"
    /\ openConns > 0
    /\ now = MaxServe

(***************************************************************************)
(* C12  A listener failure (bind error or serve error other than 'server   *)
(* closed') in Starting or Serving ends the process at once with a         *)
(* non-zero exit code: after it no grace period is begun (main does not go *)
(* on to the shutdown), srv.Shutdown does not return and the process does  *)
(* not exit with status zero.  Only a listener failure ends a created      *)
(* session that way, and the 'server closed' result of the session's own   *)
(* shutdown is never fatal.                                                *)
(***************************************************************************)
C12_ListenerFailureIsFatal ==
    /\ [](failedIn \in {"Starting", "Serving"} =>
             /\ shutdownCtx = "none"
             /\ shutdownErr = "none"
             /\ exitCode \in {0 - 1, 1})
    /\ [][(SessionCreated /\ SessionState # "Fatal" /\ SessionState' = "Fatal") =>
             (ListenerFailed /\ exitCode' = 1)]_vars
    /\ [][srvErr = "ErrServerClosed" => exitCode' # 1]_vars

(***************************************************************************)
(* C13  Every run that reaches Stopped exits with status zero, whether the *)
(* shutdown returned no error (clean), the grace period ended first        *)
(* (forced) or the shutdown call reported another error: once srv.Shutdown *)
(* has returned the process does not exit non-zero, and it exits with      *)
(* status zero only then.  The process exits non-zero only when the        *)
(* interface enumeration failed or the listener failed, and it exits only  *)
(* once.                                                                   *)
(***************************************************************************)
C13_StoppedExitsZero ==
    /\ [](SessionState = "Stopped" =>
             /\ exitCode \in {0 - 1, 0}
             /\ shutdownErr \in {"nil", "context deadline exceeded",
                                 "context canceled"})
    /\ [](exitCode = 0 => SessionState = "Stopped")
    /\ [][exitCode' # exitCode =>
             /\ exitCode = 0 - 1
             /\ exitCode' \in {0, 1}
             /\ exitCode' = 1 => (pc = "start" \/ ListenerFailed)]_vars

(***************************************************************************)
(* C14  When the interface enumeration fails the process exits non-zero    *)
(* with no Sink invocation, no per-candidate log line and no server: the   *)
(* session is never created, and nothing happens afterwards.               *)
(***************************************************************************)
\* main left its first step without a list of addresses
EnumerationFailed == pc # "start" /\ i = 0

C14_EnumerationFailureExits ==
    /\ [](EnumerationFailed =>
             /\ SessionState = "Fatal"
             /\ exitCode = 1
             /\ qr = <<>>
             /\ logLines = <<>>
             /\ ~SessionCreated
             /\ timer = "none"
             /\ sigPc = "none")
    /\ [][EnumerationFailed => UNCHANGED vars]_vars

\* the enumeration failed in a run that had a timeout and a matching -q value
C14_Witness ==
    /\ EnumerationFailed
    /\ exitCode = 1
    /\ timeout > 0
    /\ qrPrefix = <<"1", "0">>

(***************************************************************************)
(* C15  Every Sink invocation (prefix-triggered or fallback) and every     *)
(* per-candidate log line happens before the server is started and before  *)
(* the timer and the signal listener are: a step that adds one starts and  *)
(* ends with no server, no timer and no signal listener, and once the      *)
(* session exists (Starting, Serving, Stopping, Stopped) neither the Sink  *)
(* invocations nor the log lines change.                                   *)
(***************************************************************************)
C15_SelectionBeforeConcurrency ==
    /\ [][(qr' # qr \/ logLines' # logLines) =>
             /\ SessionState = "None" /\ SessionState' = "None"
             /\ srv = "none" /\ srv' = "none"
             /\ timer = "none" /\ timer' = "none"
             /\ sigPc = "none" /\ sigPc' = "none"
             /\ openConns = 0 /\ idleConns = 0]_vars
    /\ [][(SessionState \in {"Starting", "Serving", "Stopping", "Stopped"}) =>
             (qr' = qr /\ logLines' = logLines)]_vars

\* the fallback was presented, two candidates were logged, and the share is
\* now stopped after having served
C15_Witness ==
    /\ SessionState = "Stopped"
    /\ srv = "closed"
    /\ Len(logLines) = 2
    /\ Len(qr) = 1
    /\ qr[1].via = "fallback"

(***************************************************************************)
(* Tokens of a flag value, stated independently of parsePrefixes.          *)
(***************************************************************************)
\* a comma or a white-space character
IsSeparator(c) ==
    \/ c = ","
    \/ c \in {" ", "\t", "\n", "\r", "\f", "<VT>", "<NEL>", "<NBSP>"}
    \/ c \in {"<U+1680>", "<U+2028>", "<U+2029>", "<U+202F>", "<U+205F>", "<U+3000>"}
    \/ c \in {"<U+2000>", "<U+2001>", "<U+2002>", "<U+2003>", "<U+2004>", "<U+2005>",
              "<U+2006>", "<U+2007>", "<U+2008>", "<U+2009>", "<U+200A>"}

\* a..b is a maximal run of non-separator characters of s
IsMaximalRun(s, a, b) ==
    /\ a <= b
    /\ \A k \in a..b : ~IsSeparator(s[k])
    /\ a = 1 \/ IsSeparator(s[a - 1])
    /\ b = Len(s) \/ IsSeparator(s[b + 1])

RunStarts(s) == {a \in 1..Len(s) : \E b \in a..Len(s) : IsMaximalRun(s, a, b)}

RunEnd(s, a) == CHOOSE b \in a..Len(s) : IsMaximalRun(s, a, b)

\* the n-th run start, counting from the left
NthRunStart(s, n) ==
    CHOOSE a \in RunStarts(s) : Cardinality({x \in RunStarts(s) : x < a}) = n - 1

MaximalRuns(s) ==
    [n \in 1..Cardinality(RunStarts(s)) |->
        SubSeq(s, NthRunStart(s, n), RunEnd(s, NthRunStart(s, n)))]

(***************************************************************************)
(* C16  For every flag value over the alphabet (ordinary characters,       *)
(* comma, space, other white space) parsePrefixes returns, in input order, *)
(* exactly the maximal runs of characters that are neither comma nor white *)
(* space: no token is empty or holds a comma or white space, and an empty  *)
(* or separator-only value gives the empty sequence.                       *)
(***************************************************************************)
C16_TokensAreMaximalRuns ==
    pc = "loop" =>
        /\ prefixes = MaximalRuns(qrPrefix)
        /\ \A n \in 1..Len(prefixes) :
              /\ prefixes[n] # <<>>
              /\ \A k \in 1..Len(prefixes[n]) : ~IsSeparator(prefixes[n][k])
        /\ (\A k \in 1..Len(qrPrefix) : IsSeparator(qrPrefix[k])) => prefixes = <<>>

\* a leading no-break space, then two tokens with a vertical tab between them
C16_Witness ==
    /\ pc = "loop"
    /\ qrPrefix = <<"<NBSP>", "a", "<VT>", "1">>
    /\ prefixes = << <<"a">>, <<"1">> >>

(***************************************************************************)
(* The ranges of addresses the classifier is expected to call private,     *)
(* each by its first and last address.                                     *)
(***************************************************************************)
\* x <= y for two addresses of the same length, byte by byte from the left
LexLeq(x, y) ==
    \/ x = y
    \/ \E k \in 1..Len(x) : (\A j \in 1..(k - 1) : x[j] = y[j]) /\ x[k] < y[k]

Ones(n) == [k \in 1..n |-> 255]

Range(first, last) == [first |-> first, last |-> last]

LoopbackRanges ==
    {Range(<<127, 0, 0, 0>>, <<127, 255, 255, 255>>),
     Range(Zeros(15) \o <<1>>, Zeros(15) \o <<1>>)}

RFC1918Ranges ==
    {Range(<<10, 0, 0, 0>>, <<10, 255, 255, 255>>),
     Range(<<172, 16, 0, 0>>, <<172, 31, 255, 255>>),
     Range(<<192, 168, 0, 0>>, <<192, 168, 255, 255>>)}

LinkLocalRanges ==
    {Range(<<169, 254, 0, 0>>, <<169, 254, 255, 255>>),
     Range(<<254, 128>> \o Zeros(14), <<254, 191>> \o Ones(14))}

UniqueLocalRanges == {Range(<<252, 0>> \o Zeros(14), <<253, 255>> \o Ones(14))}

ListedRanges ==
    LoopbackRanges \cup RFC1918Ranges \cup LinkLocalRanges \cup UniqueLocalRanges

InRange(ip, r) ==
    Len(ip) = Len(r.first) /\ LexLeq(r.first, ip) /\ LexLeq(ip, r.last)

InListedRange(ip) == \E r \in ListedRanges : InRange(ip, r)

(***************************************************************************)
(* C17  isPrivateIP is true of every address in the loopback (127/8, ::1), *)
(* RFC1918 (10/8, 172.16/12, 192.168/16), link-local (169.254/16,          *)
(* fe80::/10) and unique-local (fc00::/7) ranges, the first and the last   *)
(* address of each range among them, and false of 8.8.8.8.                 *)
(***************************************************************************)
C17_ListedRangesArePrivate ==
    /\ \A r \in ListedRanges : r.first \in TestIPs /\ r.last \in TestIPs
    /\ verdict # "none" =>
          /\ InListedRange(testIP) => verdict = "private"
          /\ testIP = <<8, 8, 8, 8>> => verdict = "public"

\* the last address of fc00::/7 has been classified
C17_Witness ==
    /\ testIP = <<253, 255>> \o Ones(14)
    /\ verdict = "private"

(***************************************************************************)
(* Rearrangements of a prefix list.                                        *)
(***************************************************************************)
\* how often pattern x stands in the list q
Count(q, x) == Cardinality({k \in 1..Len(q) : q[k] = x})

\* the lists holding the same patterns as q, each as often, in any order
PermutationsOf(q) ==
    {r \in [1..Len(q) -> {q[k] : k \in 1..Len(q)}] :
        \A k \in 1..Len(q) : Count(r, q[k]) = Count(q, q[k])}

\* q with one of its patterns repeated, at the front or at the end
Duplications(q) ==
    {<<q[k]>> \o q : k \in 1..Len(q)} \cup {q \o <<q[k]>> : k \in 1..Len(q)}

Rearrangements(q) == PermutationsOf(q) \cup Duplications(q)

(***************************************************************************)
(* C18  For every candidate list the sequence of Sink invocations (which   *)
(* candidates, in which order, with which URLs, and whether the fallback   *)
(* is used) is the same for every permutation of the prefix list and when  *)
(* a pattern is duplicated.                                                *)
(***************************************************************************)
C18_PrefixOrderIrrelevant ==
    pc = "setup" =>
        \A q \in Rearrangements(prefixes) : SinkCalls(addrs, q, port) = qr

\* two patterns of which only the second matches, and it matches the second
\* of two candidates
C18_Witness ==
    /\ pc = "setup"
    /\ prefixes = << <<"1", "9", "2">>, <<"1", "0">> >>
    /\ addrs = <<Public8, Private10>>
    /\ LinksOf(qr) = <<ExpectedURL(Private10)>>
    /\ << <<"1", "0">>, <<"1", "9", "2">> >> \in Rearrangements(prefixes)
    /\ << <<"1", "0">>, <<"1", "9", "2">>, <<"1", "0">> >> \in Rearrangements(prefixes)

(***************************************************************************)
(* The entries the address loop is expected to pass over.                  *)
(***************************************************************************)
\* an IPv6 entry, or an entry that is not an IP network
IsSkipped(a) == a \in {V6Public, V6LinkLocal, NonIPNet, NonIPNet100}

\* the textual form of the entries that are passed over
SkippedText(a) ==
    CASE a = V6Public -> <<"1", ":", ":", "1">>
      [] a = V6LinkLocal -> <<"f", "e", "8", "0", ":", ":", "1">>
      [] a = NonIPNet -> <<"8", ".", "8", ".", "4", ".", "4">>
      [] a = NonIPNet100 -> <<"1", "0", "0", ".", "6", "4", ".", "0", ".", "2">>

NotSkipped(a) == ~IsSkipped(a)

(***************************************************************************)
(* C19  An address that is not IPv4, or is not an IP-network entry, is     *)
(* skipped entirely: the iteration over it adds no log line and no Sink    *)
(* invocation and leaves the fallback and the match flag alone, even when  *)
(* its text starts with a prefix pattern or it is public; the outcome of   *)
(* the pass is that of the list without such entries.                      *)
(***************************************************************************)
C19_NonIPv4IsSkipped ==
    /\ [][(pc = "loop" /\ i' = i + 1 /\ IsSkipped(addrs[i])) =>
             /\ logLines' = logLines
             /\ qr' = qr
             /\ qrGenerated' = qrGenerated
             /\ fallbackIP' = fallbackIP
             /\ fallbackLink' = fallbackLink]_vars
    /\ [](pc = "setup" =>
             /\ qr = SinkCalls(SelectSeq(addrs, NotSkipped), prefixes, port)
             /\ Len(logLines) = Len(SelectSeq(addrs, NotSkipped))
             /\ \A k \in 1..Len(addrs) :
                   IsSkipped(addrs[k]) => fallbackIP # addrs[k].ip)

\* two skipped entries, both public, both starting with the pattern: nothing
\* was logged, presented or kept as fallback
C19_Witness ==
    /\ pc = "setup"
    /\ addrs = <<NonIPNet100, V6Public>>
    /\ prefixes = << <<"1">> >>
    /\ \A k \in 1..2 : StartsWith(SkippedText(addrs[k]), prefixes[1])
    /\ \A k \in 1..2 : ~isPrivateIP(addrs[k].ip)
    /\ qr = <<>>
    /\ logLines = <<>>
    /\ fallbackIP = NilIP

(***************************************************************************)
(* The IPv4 addresses expected to be private, by their leading bytes.      *)
(***************************************************************************)
InPrivateV4Block(ip) ==
    \/ ip[1] = 127
    \/ ip[1] = 10
    \/ ip[1] = 172 /\ ip[2] >= 16 /\ ip[2] <= 31
    \/ ip[1] = 192 /\ ip[2] = 168
    \/ ip[1] = 169 /\ ip[2] = 254
    \/ ip[1] = 224 /\ ip[2] = 0 /\ ip[3] = 0

\* the addresses just outside the blocks that must come out public
NamedPublicV4 ==
    {<<172, 15, 255, 255>>, <<172, 32, 0, 0>>, <<192, 167, 255, 255>>,
     <<192, 169, 0, 0>>, <<100, 64, 0, 1>>, <<0, 0, 0, 0>>, <<255, 255, 255, 255>>}

(***************************************************************************)
(* C20  An IPv4 address is classified private exactly when it lies in      *)
(* 127/8, 10/8, 172.16/12, 192.168/16, 169.254/16 or 224.0.0.0/24; every   *)
(* other IPv4 address (172.15.255.255, 172.32.0.0, 192.167.255.255,        *)
(* 192.169.0.0, 100.64.0.1, 0.0.0.0, 255.255.255.255 among them) is public *)
(* and, being the only candidate, is recorded and presented as fallback.   *)
(***************************************************************************)
C20_PrivateV4Exactly ==
    /\ NamedPublicV4 \subseteq V4Samples
    /\ \A ip \in NamedPublicV4 : ~InPrivateV4Block(ip)
    /\ pc = "setup" =>
          LET ip == addrs[1].ip
          IN  /\ Len(logLines) = 1
              /\ logLines[1].mark = "private" <=> InPrivateV4Block(ip)
              /\ logLines[1].mark = "public" <=> ~InPrivateV4Block(ip)
              /\ InPrivateV4Block(ip) => (fallbackIP = NilIP /\ qr = <<>>)
              /\ ~InPrivateV4Block(ip) =>
                    /\ fallbackIP = ip
                    /\ Len(qr) = 1
                    /\ qr[1].via = "fallback"
                    /\ qr[1].link = logLines[1].link

\* 172.32.0.0, next after the last address of 172.16/12, was presented as
\* fallback
C20_Witness ==
    /\ pc = "setup"
    /\ addrs[1].ip = <<172, 32, 0, 0>>
    /\ logLines[1].mark = "public"
    /\ fallbackIP = <<172, 32, 0, 0>>
    /\ Len(qr) = 1

=============================================================================
